---- MODULE Spec2Model ----
(***************************************************************************)
(* Model of src/src/mpsc.rs: an unbounded multi-producer single-consumer   *)
(* channel.  Shared state (Inner) is guarded by one Mutex, the Receiver    *)
(* blocks on one Condvar and keeps a private buffer.                       *)
(*                                                                         *)
(* Every Sender handle is driven by its own thread; the Receiver handle is *)
(* driven by one thread.  One step of the model is either the call of an   *)
(* operation, the acquisition of the mutex, the critical section up to the *)
(* release of the mutex (atomic for every other thread, because the mutex  *)
(* is held throughout), or a notify_one after the release.                 *)
(*                                                                         *)
(* The channel is generic in T and never inspects a value, so the values   *)
(* sent are tokens: the k-th send call made on handle h carries the value  *)
(* <<h, k>>.  Any run with other values is the image of such a run under a *)
(* renaming.                                                               *)
(***************************************************************************)
EXTENDS Integers, Sequences, FiniteSets

\* ---- bounds of the model ------------------------------------------------
MaxCalls == 4        \* send and clone calls in one run
MaxRecvs == 4        \* receive calls in one run
MaxSpurious == 1     \* spurious wake-ups of Condvar::wait in one run

\* the original Sender and one handle for every clone call
Handles == 1..(MaxCalls + 1)
Values == Handles \X (1..MaxCalls)

\* no value: an argument slot or an Option that holds nothing
NoValue == <<>>

\* thread identities: a Sender handle's thread is the handle id
Rx == 0
Free == -1
\* the mutex after a thread panicked while holding it: free, and every later
\* lock() or wait() returns Err(PoisonError), on which unwrap() panics
Poisoned == -2

VARIABLES
    lock,            \* Shared.inner (Mutex): the holder, Free or Poisoned
    queue,           \* Inner.queue
    senders,         \* Inner.senders
    receiver_alive,  \* Inner.receiver_alive
    waiters,         \* Shared.can_receive (Condvar): threads blocked in wait
    buffer,          \* Receiver.buffer
    spc,             \* position of each Sender handle's thread
    arg,             \* the value a running send was called with
    result,          \* what send returned, until the next call on the handle
    rpc,             \* position of the Receiver's thread
    rcall,           \* history: the last receive call found the channel closed at its call
    pushed,          \* history: values in the order they were pushed (line 19)
    received,        \* history: what the receive calls returned, in order
    nsends,          \* send calls so far, on each handle
    ncalls,          \* send and clone calls so far
    nspurious        \* spurious wake-ups so far

vars == <<lock, queue, senders, receiver_alive, waiters, buffer, spc, arg,
          result, rpc, rcall, pushed, received, nsends, ncalls, nspurious>>

shared == <<queue, senders, receiver_alive>>

\* ---- values of the program's types ---------------------------------------
\* Option<T>
None == [some |-> FALSE, value |-> NoValue]
Some(v) == [some |-> TRUE, value |-> v]

\* Result<(), T>; NoResult: no send has returned since the last call on the handle
NoResult == [tag |-> "none", value |-> NoValue]
Ok == [tag |-> "ok", value |-> NoValue]
Err(v) == [tag |-> "err", value |-> v]

\* VecDeque operations
push_front(q, v) == <<v>> \o q
push_back(q, v) == Append(q, v)
no_pop(q) == q
pop_front(q) == Tail(q)
front(q) == Head(q)

\* Condvar::notify_one: wakes one blocked thread, is lost when none is blocked
notify_one(w) == IF w = {} THEN w ELSE w \ {CHOOSE t \in w : TRUE}

\* a construction that does not count the Sender it returns
InitNoSender ==
    /\ lock = Free
    /\ queue = <<>>
    /\ senders = 0
    /\ receiver_alive = TRUE
    /\ waiters = {}
    /\ buffer = <<>>
    /\ spc = [h \in Handles |-> IF h = 1 THEN "idle" ELSE "none"]
    /\ arg = [h \in Handles |-> NoValue]
    /\ result = [h \in Handles |-> NoResult]
    /\ rpc = "idle"
    /\ rcall = FALSE
    /\ pushed = <<>>
    /\ received = <<>>
    /\ nsends = [h \in Handles |-> 0]
    /\ ncalls = 0
    /\ nspurious = 0

\* ---- construction: unbounded_channel() -----------------------------------
Init ==
    /\ lock = Free
    /\ queue = <<>>
    /\ senders = 1
    /\ receiver_alive = TRUE
    /\ waiters = {}
    /\ buffer = <<>>
    /\ spc = [h \in Handles |-> IF h = 1 THEN "idle" ELSE "none"]
    /\ arg = [h \in Handles |-> NoValue]
    /\ result = [h \in Handles |-> NoResult]
    /\ rpc = "idle"
    /\ rcall = FALSE
    /\ pushed = <<>>
    /\ received = <<>>
    /\ nsends = [h \in Handles |-> 0]
    /\ ncalls = 0
    /\ nspurious = 0

\* ---- Sender::send ----------------------------------------------------------
SendCall(h) ==
    /\ spc[h] = "idle"
    /\ ncalls < MaxCalls
    /\ spc' = [spc EXCEPT ![h] = "send_lock"]
    /\ arg' = [arg EXCEPT ![h] = <<h, nsends[h] + 1>>]
    /\ result' = [result EXCEPT ![h] = NoResult]
    /\ nsends' = [nsends EXCEPT ![h] = @ + 1]
    /\ ncalls' = ncalls + 1
    /\ UNCHANGED <<lock, shared, waiters, buffer, rpc, rcall, pushed, received, nspurious>>

\* a lock() that does not wait for the mutex to be free
SendLockNoWait(h) ==
    /\ spc[h] = "send_lock"
    /\ lock' = h
    /\ spc' = [spc EXCEPT ![h] = "send_body"]
    /\ UNCHANGED <<shared, waiters, buffer, arg, result, rpc, rcall, pushed, received,
                   nsends, ncalls, nspurious>>

\* line 15: self.shared.inner.lock()
SendLock(h) ==
    /\ spc[h] = "send_lock"
    /\ lock = Free
    /\ lock' = h
    /\ spc' = [spc EXCEPT ![h] = "send_body"]
    /\ UNCHANGED <<shared, waiters, buffer, arg, result, rpc, rcall, pushed, received,
                   nsends, ncalls, nspurious>>

\* lines 16-18: the receiver is gone, the guard is dropped and the value returned
SendFail(h) ==
    /\ lock' = Free
    /\ result' = [result EXCEPT ![h] = Err(arg[h])]
    /\ arg' = [arg EXCEPT ![h] = NoValue]
    /\ spc' = [spc EXCEPT ![h] = "idle"]
    /\ UNCHANGED <<shared, pushed>>

\* lines 19-20: push_back, drop(inner)
SendPush(h) ==
    /\ queue' = push_back(queue, arg[h])
    /\ pushed' = Append(pushed, arg[h])
    /\ lock' = Free
    /\ spc' = [spc EXCEPT ![h] = "send_notify"]
    /\ UNCHANGED <<senders, receiver_alive, arg, result>>

\* send without the receiver_alive check of line 16
SendBodyNoCheck(h) ==
    /\ spc[h] = "send_body"
    /\ SendPush(h)
    /\ UNCHANGED <<waiters, buffer, rpc, rcall, received, nsends, ncalls, nspurious>>

\* lines 16-20, under the lock
SendBody(h) ==
    /\ spc[h] = "send_body"
    /\ IF ~receiver_alive THEN SendFail(h) ELSE SendPush(h)
    /\ UNCHANGED <<waiters, buffer, rpc, rcall, received, nsends, ncalls, nspurious>>

\* send without the notify_one of line 21
SendNoNotify(h) ==
    /\ spc[h] = "send_notify"
    /\ result' = [result EXCEPT ![h] = Ok]
    /\ arg' = [arg EXCEPT ![h] = NoValue]
    /\ spc' = [spc EXCEPT ![h] = "idle"]
    /\ UNCHANGED <<lock, shared, waiters, buffer, rpc, rcall, pushed, received, nsends, ncalls,
                   nspurious>>

\* lines 21-22: notify_one after the lock is released, then Ok(())
SendNotify(h) ==
    /\ spc[h] = "send_notify"
    /\ waiters' = notify_one(waiters)
    /\ result' = [result EXCEPT ![h] = Ok]
    /\ arg' = [arg EXCEPT ![h] = NoValue]
    /\ spc' = [spc EXCEPT ![h] = "idle"]
    /\ UNCHANGED <<lock, shared, buffer, rpc, rcall, pushed, received, nsends, ncalls, nspurious>>

\* ---- Clone for Sender -------------------------------------------------------
Unborn == {h \in Handles : spc[h] = "none"}

CloneCall(h) ==
    /\ spc[h] = "idle"
    /\ ncalls < MaxCalls
    /\ spc' = [spc EXCEPT ![h] = "clone_lock"]
    /\ ncalls' = ncalls + 1
    /\ UNCHANGED <<lock, shared, waiters, buffer, arg, result, rpc, rcall, pushed,
                   received, nsends, nspurious>>

\* line 28
CloneLock(h) ==
    /\ spc[h] = "clone_lock"
    /\ lock = Free
    /\ lock' = h
    /\ spc' = [spc EXCEPT ![h] = "clone_body"]
    /\ UNCHANGED <<shared, waiters, buffer, arg, result, rpc, rcall, pushed, received,
                   nsends, ncalls, nspurious>>

\* clone without the increment of line 29
CloneBodyNoCount(h) ==
    /\ spc[h] = "clone_body"
    /\ lock' = Free
    /\ LET n == CHOOSE x \in Unborn : \A y \in Unborn : x <= y
       IN spc' = [spc EXCEPT ![h] = "idle", ![n] = "idle"]
    /\ UNCHANGED <<shared, waiters, buffer, arg, result, rpc, rcall,
                   pushed, received, nsends, ncalls, nspurious>>

\* lines 29-34: senders += 1, drop(inner), the new handle is returned
CloneBody(h) ==
    /\ spc[h] = "clone_body"
    /\ senders' = senders + 1
    /\ lock' = Free
    /\ LET n == CHOOSE x \in Unborn : \A y \in Unborn : x <= y
       IN spc' = [spc EXCEPT ![h] = "idle", ![n] = "idle"]
    /\ UNCHANGED <<queue, receiver_alive, waiters, buffer, arg, result, rpc, rcall,
                   pushed, received, nsends, ncalls, nspurious>>

\* ---- Drop for Sender --------------------------------------------------------
DropCall(h) ==
    /\ spc[h] = "idle"
    /\ spc' = [spc EXCEPT ![h] = "drop_lock"]
    /\ result' = [result EXCEPT ![h] = NoResult]
    /\ UNCHANGED <<lock, shared, waiters, buffer, arg, rpc, rcall, pushed,
                   received, nsends, ncalls, nspurious>>

\* line 40
DropLock(h) ==
    /\ spc[h] = "drop_lock"
    /\ lock = Free
    /\ lock' = h
    /\ spc' = [spc EXCEPT ![h] = "drop_body"]
    /\ UNCHANGED <<shared, waiters, buffer, arg, result, rpc, rcall, pushed, received,
                   nsends, ncalls, nspurious>>

\* the condition of line 47 without was_last
ShouldNotifyAlways(was_last, alive) == alive

\* the condition of line 47 with the flag inverted
ShouldNotifyInverted(was_last, alive) == was_last /\ ~alive

\* line 47: was_last && receiver_alive, both read under the lock (lines 42-43)
ShouldNotify(was_last, alive) == was_last /\ alive

\* drop without the decrement of line 41
DropBodyNoCount(h) ==
    /\ spc[h] = "drop_body"
    /\ lock' = Free
    /\ spc' = [spc EXCEPT ![h] =
                 IF ShouldNotify(senders = 0, receiver_alive)
                 THEN "drop_notify" ELSE "dead"]
    /\ UNCHANGED <<shared, waiters, buffer, arg, result, rpc, rcall,
                   pushed, received, nsends, ncalls, nspurious>>

\* lines 41-44: senders -= 1, the two locals are read, drop(inner); senders is a
\* usize, and TypeOK shows that the decrement never takes it below 0
DropBody(h) ==
    /\ spc[h] = "drop_body"
    /\ senders' = senders - 1
    /\ lock' = Free
    /\ spc' = [spc EXCEPT ![h] =
                 IF ShouldNotify(senders' = 0, receiver_alive)
                 THEN "drop_notify" ELSE "dead"]
    /\ UNCHANGED <<queue, receiver_alive, waiters, buffer, arg, result, rpc, rcall,
                   pushed, received, nsends, ncalls, nspurious>>

\* lines 47-49: notify_one after the lock is released
DropNotify(h) ==
    /\ spc[h] = "drop_notify"
    /\ waiters' = notify_one(waiters)
    /\ spc' = [spc EXCEPT ![h] = "dead"]
    /\ UNCHANGED <<lock, shared, buffer, arg, result, rpc, rcall, pushed, received,
                   nsends, ncalls, nspurious>>

\* ---- Receiver::receive ------------------------------------------------------
\* a receive that goes for the lock without looking into its buffer
ReceiveSkipsBuffer ==
    /\ rpc = "idle"
    /\ Len(received) < MaxRecvs
    /\ rcall' = (buffer = <<>> /\ queue = <<>> /\ senders = 0)
    /\ rpc' = "recv_lock"
    /\ UNCHANGED <<lock, shared, waiters, buffer, received, spc, arg, result, pushed,
                   nsends, ncalls, nspurious>>

\* lines 60-63: the call; a buffered value is returned without taking the lock
Receive ==
    /\ rpc = "idle"
    /\ Len(received) < MaxRecvs
    /\ rcall' = (buffer = <<>> /\ queue = <<>> /\ senders = 0)
    /\ IF buffer # <<>>
       THEN /\ received' = Append(received, Some(front(buffer)))
            /\ buffer' = pop_front(buffer)
            /\ rpc' = "idle"
       ELSE /\ rpc' = "recv_lock"
            /\ UNCHANGED <<received, buffer>>
    /\ UNCHANGED <<lock, shared, waiters, spc, arg, result, pushed, nsends, ncalls, nspurious>>

\* line 65
RecvLock ==
    /\ rpc = "recv_lock"
    /\ lock = Free
    /\ lock' = Rx
    /\ rpc' = "recv_loop"
    /\ UNCHANGED <<shared, waiters, buffer, spc, arg, result, rcall, pushed, received,
                   nsends, ncalls, nspurious>>

\* the rest of the queue is taken out of the queue but not kept in the buffer
RecvSomeDropsRest ==
    /\ received' = Append(received, Some(front(queue)))
    /\ queue' = <<>>
    /\ lock' = Free
    /\ rpc' = "idle"
    /\ UNCHANGED <<senders, receiver_alive, waiters, rcall, buffer>>

\* the rest of the queue is left in the queue
RecvSomeNoSwap ==
    /\ received' = Append(received, Some(front(queue)))
    /\ queue' = pop_front(queue)
    /\ lock' = Free
    /\ rpc' = "idle"
    /\ UNCHANGED <<senders, receiver_alive, waiters, rcall, buffer>>

\* lines 68-73: a value was popped; what is left of the queue is swapped with the
\* (empty) buffer; the guard is dropped on return
RecvSome ==
    /\ LET value == front(queue)
           rest == pop_front(queue)
       IN /\ IF rest # <<>>
             THEN queue' = buffer /\ buffer' = rest
             ELSE queue' = rest /\ buffer' = buffer
          /\ received' = Append(received, Some(value))
    /\ lock' = Free
    /\ rpc' = "idle"
    /\ UNCHANGED <<senders, receiver_alive, waiters, rcall>>

\* line 74: queue empty and no sender left
RecvNone ==
    /\ received' = Append(received, None)
    /\ lock' = Free
    /\ rpc' = "idle"
    /\ UNCHANGED <<shared, waiters, buffer, rcall>>

\* a wait that blocks with the mutex still held
RecvWaitKeepsLock ==
    /\ waiters' = waiters \cup {Rx}
    /\ rpc' = "recv_wait"
    /\ UNCHANGED <<lock, shared, buffer, received, rcall>>

\* lines 75-77: Condvar::wait releases the mutex and blocks, atomically
RecvWait ==
    /\ waiters' = waiters \cup {Rx}
    /\ lock' = Free
    /\ rpc' = "recv_wait"
    /\ UNCHANGED <<shared, buffer, received, rcall>>

\* the loop without the arm of line 74: an empty queue always waits
RecvMatchNoClose ==
    /\ rpc = "recv_loop"
    /\ IF queue # <<>> THEN RecvSome ELSE RecvWait
    /\ UNCHANGED <<spc, arg, result, pushed, nsends, ncalls, nspurious>>

\* the loop without the guard of line 74: an empty queue always reads as closed
RecvMatchNoBlock ==
    /\ rpc = "recv_loop"
    /\ IF queue # <<>> THEN RecvSome ELSE RecvNone
    /\ UNCHANGED <<spc, arg, result, pushed, nsends, ncalls, nspurious>>

\* the loop that waits whenever senders remain, before looking at the queue
RecvMatchWaitFirst ==
    /\ rpc = "recv_loop"
    /\ IF senders > 0 THEN RecvWait
       ELSE IF queue # <<>> THEN RecvSome
       ELSE RecvNone
    /\ UNCHANGED <<spc, arg, result, pushed, nsends, ncalls, nspurious>>

\* lines 66-78: one turn of the loop, under the lock
RecvMatch ==
    /\ rpc = "recv_loop"
    /\ IF queue # <<>> THEN RecvSome
       ELSE IF senders = 0 THEN RecvNone
       ELSE RecvWait
    /\ UNCHANGED <<spc, arg, result, pushed, nsends, ncalls, nspurious>>

\* a wake that is taken for a signal: no second look at senders, no second wait
RecvWakeNoRecheck ==
    /\ rpc = "recv_wait"
    /\ Rx \notin waiters
    /\ lock = Free
    /\ IF queue # <<>> THEN RecvSome ELSE RecvNone
    /\ UNCHANGED <<spc, arg, result, pushed, nsends, ncalls, nspurious>>

\* line 76: wait returns once the thread was woken and has the mutex again
RecvWake ==
    /\ rpc = "recv_wait"
    /\ Rx \notin waiters
    /\ lock = Free
    /\ lock' = Rx
    /\ rpc' = "recv_loop"
    /\ UNCHANGED <<shared, waiters, buffer, spc, arg, result, rcall, pushed, received,
                   nsends, ncalls, nspurious>>

\* Condvar::wait may wake without a notification
SpuriousWake ==
    /\ Rx \in waiters
    /\ nspurious < MaxSpurious
    /\ waiters' = waiters \ {Rx}
    /\ nspurious' = nspurious + 1
    /\ UNCHANGED <<lock, shared, buffer, spc, arg, result, rpc, rcall, pushed, received,
                   nsends, ncalls>>

\* ---- Drop for Receiver ------------------------------------------------------
RxDropCall ==
    /\ rpc = "idle"
    /\ rpc' = "rxdrop_lock"
    /\ UNCHANGED <<lock, shared, waiters, buffer, spc, arg, result, rcall, pushed,
                   received, nsends, ncalls, nspurious>>

\* line 85
RxDropLock ==
    /\ rpc = "rxdrop_lock"
    /\ lock = Free
    /\ lock' = Rx
    /\ rpc' = "rxdrop_body"
    /\ UNCHANGED <<shared, waiters, buffer, spc, arg, result, rcall, pushed, received,
                   nsends, ncalls, nspurious>>

\* a Receiver drop that leaves the flag as it is
RxDropBodyNoFlag ==
    /\ rpc = "rxdrop_body"
    /\ lock' = Free
    /\ buffer' = <<>>
    /\ rpc' = "dead"
    /\ UNCHANGED <<shared, waiters, spc, arg, result, rcall, pushed, received,
                   nsends, ncalls, nspurious>>

\* lines 86-88: receiver_alive = false, drop(inner); the buffer goes with the struct
RxDropBody ==
    /\ rpc = "rxdrop_body"
    /\ receiver_alive' = FALSE
    /\ lock' = Free
    /\ buffer' = <<>>
    /\ rpc' = "dead"
    /\ UNCHANGED <<queue, senders, waiters, spc, arg, result, rcall, pushed, received,
                   nsends, ncalls, nspurious>>

\* ---- the threads -------------------------------------------------------------
\* what a Sender handle's thread does once an operation has been called
SenderStep(h) ==
    \/ SendLock(h)
    \/ SendBody(h)
    \/ SendNotify(h)
    \/ CloneLock(h)
    \/ CloneBody(h)
    \/ DropLock(h)
    \/ DropBody(h)
    \/ DropNotify(h)

\* the calls a program makes on a Sender handle
SenderCall(h) ==
    \/ SendCall(h)
    \/ CloneCall(h)
    \/ DropCall(h)

\* what the Receiver's thread does once an operation has been called
ReceiverStep ==
    \/ RecvLock
    \/ RecvMatch
    \/ RecvWake
    \/ RxDropLock
    \/ RxDropBody

Next ==
    \/ \E h \in Handles : SenderCall(h)
    \/ \E h \in Handles : SenderStep(h)
    \/ Receive
    \/ RxDropCall
    \/ ReceiverStep
    \/ SpuriousWake

Spec == Init /\ [][Next]_vars

\* Threads are scheduled fairly: a thread that can take its next step takes it.
\* Calls and spurious wake-ups are not forced.
FairSpec ==
    /\ Spec
    /\ \A h \in Handles : WF_vars(SenderStep(h))
    /\ WF_vars(ReceiverStep)

TypeOK ==
    /\ lock \in {Free, Poisoned, Rx} \cup Handles
    /\ \A i \in 1..Len(queue) : queue[i] \in Values
    /\ senders \in 0..(MaxCalls + 1)
    /\ receiver_alive \in BOOLEAN
    /\ waiters \subseteq {Rx}
    /\ \A i \in 1..Len(buffer) : buffer[i] \in Values
    /\ nsends \in [Handles -> 0..MaxCalls]
    /\ ncalls \in 0..MaxCalls
    /\ nspurious \in 0..MaxSpurious
    /\ Len(pushed) <= MaxCalls
    /\ Len(received) <= MaxRecvs

\* ---- a panic under the lock ----------------------------------------------------
\* line 19: push_back panics (the queue cannot grow); the guard is dropped while
\* the thread unwinds, which poisons the mutex; nothing was pushed
SendPushPanics(h) ==
    /\ spc[h] = "send_body"
    /\ receiver_alive
    /\ lock' = Poisoned
    /\ spc' = [spc EXCEPT ![h] = "panicked"]
    /\ UNCHANGED <<shared, waiters, buffer, arg, result, rpc, rcall, pushed, received,
                   nsends, ncalls, nspurious>>

\* a poisoned lock read as "receiver gone": send returns Err(value)
SenderLockPoisonedAsErr(h) ==
    /\ spc[h] \in {"send_lock", "clone_lock", "drop_lock"}
    /\ lock = Poisoned
    /\ spc' = [spc EXCEPT ![h] = IF spc[h] = "send_lock" THEN "idle" ELSE "panicked"]
    /\ result' = [result EXCEPT ![h] = IF spc[h] = "send_lock" THEN Err(arg[h]) ELSE @]
    /\ UNCHANGED <<lock, shared, waiters, buffer, arg, rpc, rcall, pushed, received,
                   nsends, ncalls, nspurious>>

\* lines 15, 28, 40: lock().unwrap() on the poisoned mutex panics
SenderLockPoisoned(h) ==
    /\ spc[h] \in {"send_lock", "clone_lock", "drop_lock"}
    /\ lock = Poisoned
    /\ spc' = [spc EXCEPT ![h] = "panicked"]
    /\ UNCHANGED <<lock, shared, waiters, buffer, arg, result, rpc, rcall, pushed, received,
                   nsends, ncalls, nspurious>>

\* lines 65, 85: lock().unwrap(), and line 76: wait(inner).unwrap() once woken,
\* on the poisoned mutex panic
ReceiverLockPoisoned ==
    /\ \/ rpc \in {"recv_lock", "rxdrop_lock"}
       \/ rpc = "recv_wait" /\ Rx \notin waiters
    /\ lock = Poisoned
    /\ rpc' = "panicked"
    /\ UNCHANGED <<lock, shared, waiters, buffer, spc, arg, result, rcall, pushed, received,
                   nsends, ncalls, nspurious>>

PoisonNext ==
    \/ Next
    \/ \E h \in Handles : SendPushPanics(h)
    \/ \E h \in Handles : SenderLockPoisoned(h)
    \/ ReceiverLockPoisoned

\* the program with panics under the lock
PoisonSpec == Init /\ [][PoisonNext]_vars

\* ---- notions the properties use ----------------------------------------------
Last(s) == s[Len(s)]

IsPrefix(s, t) == Len(s) <= Len(t) /\ \A i \in 1..Len(s) : s[i] = t[i]

\* the values the receive calls returned, in order
RecvValues ==
    LET got == SelectSeq(received, LAMBDA r : r.some)
    IN [i \in 1..Len(got) |-> got[i].value]

\* Sender handles that exist and have not given up their count in drop (line 41)
LiveHandles == {h \in Handles : spc[h] \notin {"none", "dead", "drop_notify"}}

\* every Sender handle that was ever created has been destroyed
AllSendersGone == \A h \in Handles : spc[h] \in {"none", "dead"}

\* a Sender operation has been called and has not returned
InOp(h) == spc[h] \notin {"none", "idle", "dead"}

\* the threads that are inside a critical section of the code
InCritical ==
    {h \in Handles : spc[h] \in {"send_body", "clone_body", "drop_body"}}
    \cup (IF rpc \in {"recv_loop", "rxdrop_body"} THEN {Rx} ELSE {})

\* thread t takes a step
Acts(t) == IF t = Rx THEN rpc' # rpc ELSE spc'[t] # spc[t]

\* ---- C1 ------------------------------------------------------------------------
\* C1: the values returned by successive receive calls are a prefix of the
\* sequence in which values were pushed onto the shared queue, and the values
\* of one Sender are returned in the order that Sender sent them.
C1_Fifo ==
    /\ IsPrefix(RecvValues, pushed)
    /\ \A i, j \in 1..Len(RecvValues) :
          (i < j /\ RecvValues[i][1] = RecvValues[j][1])
          => RecvValues[i][2] < RecvValues[j][2]

\* a value has been returned, one waits in the private buffer and a newer one
\* has been pushed onto the shared queue
C1_Witness == received # <<>> /\ buffer # <<>> /\ queue # <<>>

\* ---- C2 ------------------------------------------------------------------------
\* C2: a send that takes the lock after the Receiver was destroyed returns
\* Err(v) with the v it was called with, leaves queue, senders and
\* receiver_alive as they are and sends no signal.
C2_SendAfterRxDrop ==
    [][\A h \in Handles :
         (~receiver_alive /\ spc[h] \in {"send_lock", "send_body"} /\ spc'[h] # spc[h])
         => /\ UNCHANGED <<queue, senders, receiver_alive, waiters, pushed>>
            /\ IF spc[h] = "send_lock"
               THEN spc'[h] = "send_body"
               ELSE spc'[h] = "idle" /\ result'[h] = Err(arg[h])]_vars

\* a send has failed with the value it was called with
C2_Witness ==
    \E h \in Handles :
        ~receiver_alive /\ spc[h] = "idle" /\ result[h].tag = "err"
        /\ result[h].value \in Values

\* ---- C3 ------------------------------------------------------------------------
\* C3: a receive called with the buffer and the queue empty and senders = 0
\* never waits on the condition variable and returns None.
C3_ClosedNoWait ==
    rcall => /\ rpc # "recv_wait"
             /\ Rx \notin waiters
             /\ rpc = "idle" => (received # <<>> /\ Last(received) = None)

\* such a call has returned
C3_Witness == rcall /\ rpc = "idle" /\ received # <<>> /\ Last(received) = None

\* ---- C4 ------------------------------------------------------------------------
\* C4: receive returns None only when no Sender handle is live, and a send
\* fails only when the Receiver is gone.
C4_CloneKeepsOpen ==
    /\ (\E i \in 1..Len(received) : received[i] = None) => LiveHandles = {}
    /\ \A h \in Handles : result[h].tag = "err" => ~receiver_alive

\* the original is destroyed, a send through the clone has succeeded and the
\* receiver, having returned that value, is blocked rather than closed
C4_Witness ==
    /\ spc[1] = "dead"
    /\ \E h \in Handles \ {1} : spc[h] = "idle" /\ result[h] = Ok
    /\ received # <<>> /\ Last(received).some
    /\ rpc = "recv_wait"

\* ---- C5 ------------------------------------------------------------------------
\* C5: a receive that is inside wait when the last Sender has been destroyed,
\* either still in the wait set or woken with nothing left in the queue,
\* eventually returns None.
C5_LastDropWakes ==
    (rpc = "recv_wait" /\ senders = 0 /\ (Rx \in waiters \/ queue = <<>>))
        ~> (rpc = "idle" /\ received # <<>> /\ Last(received) = None)

\* the receiver is still in the wait set, the last Sender has given up its
\* count and has not signalled yet
C5_Witness ==
    /\ rpc = "recv_wait" /\ Rx \in waiters
    /\ senders = 0 /\ queue = <<>>
    /\ \E h \in Handles : spc[h] = "drop_notify"

\* ---- C6 ------------------------------------------------------------------------
\* C6: after a receive call returned None, every later receive call returns None.
C6_ClosedStaysClosed ==
    \A i, j \in 1..Len(received) :
        (i < j /\ received[i] = None) => received[j] = None

\* two calls in a row have returned None
C6_Witness ==
    /\ Len(received) >= 2
    /\ received[Len(received) - 1] = None
    /\ Last(received) = None

\* ---- C7 ------------------------------------------------------------------------
\* C7: once every Sender handle is destroyed, the receive calls made so far
\* have returned the N pushed values, in push order, in calls 1..N and None in
\* every call after N.
C7_AllThenClosed ==
    AllSendersGone =>
        \A i \in 1..Len(received) :
            received[i] = IF i <= Len(pushed) THEN Some(pushed[i]) ELSE None

\* a send through the clone and a send through the original, both received and
\* the next call closed
C7_Witness ==
    /\ AllSendersGone
    /\ pushed = <<<<2, 1>>, <<1, 1>>>>
    /\ received = <<Some(<<2, 1>>), Some(<<1, 1>>), None>>

\* ---- C8 ------------------------------------------------------------------------
\* C8: a receive that is blocked while the queue holds a value eventually
\* returns a value.
C8_SendWakes ==
    (rpc = "recv_wait" /\ queue # <<>>)
        ~> (rpc = "idle" /\ received # <<>> /\ Last(received).some)

\* the receiver is still in the wait set, a send has pushed and released the
\* lock and has not signalled yet
C8_Witness ==
    /\ rpc = "recv_wait" /\ Rx \in waiters
    /\ queue # <<>>
    /\ \E h \in Handles : spc[h] = "send_notify"

\* ---- C9 ------------------------------------------------------------------------
\* C9: only the Receiver's thread ever waits on the condition variable, and it
\* starts to wait only inside receive, under the lock, with the buffer empty,
\* the queue empty and senders > 0.
C9_WaitOnlyWhenEmptyOpen ==
    [][/\ waiters' \subseteq {Rx}
       /\ (Rx \notin waiters /\ Rx \in waiters')
          => /\ rpc = "recv_loop" /\ lock = Rx
             /\ buffer = <<>> /\ queue = <<>> /\ senders > 0]_vars

\* the receiver waits
C9_Witness == Rx \in waiters /\ rpc = "recv_wait"

\* ---- C10 -----------------------------------------------------------------------
\* C10: every send, clone and Sender drop that was called returns (no handle
\* stays inside an operation for ever, which is InOp(h) ~> ~InOp(h)), and a
\* Receiver that waits does not hold the lock.
C10_SenderOpsTerminate ==
    /\ [](Rx \in waiters => lock # Rx)
    /\ \A h \in Handles : []<>(~InOp(h))

\* a send is in its critical section while the receiver is blocked in wait
C10_Witness ==
    /\ rpc = "recv_wait" /\ Rx \in waiters
    /\ \E h \in Handles : spc[h] = "send_body" /\ lock = h

\* ---- C11 -----------------------------------------------------------------------
\* C11: senders is the number of live Sender handles in every state: 1 after
\* construction, one more with every clone, one less with every Sender drop,
\* never below 0.
C11_SendersCountsHandles ==
    /\ senders = Cardinality(LiveHandles)
    /\ senders >= 0

\* two clones were made and one handle was destroyed
C11_Witness ==
    /\ senders = 2
    /\ \E h \in Handles : spc[h] = "dead"

\* ---- C12 -----------------------------------------------------------------------
\* C12 as claimed: while the lock is poisoned no send returns Err(value) and no
\* receive returns None or a value.
C12_Original ==
    [][lock = Poisoned
       => /\ received' = received
          /\ \A h \in Handles : result'[h] # result[h] => result'[h].tag # "err"]_vars

\* C12 as amended: while the lock is poisoned, a send or receive that needs the
\* lock panics: no send returns Err(value), no receive returns None, and the
\* only values receive returns are those it finds in its private buffer, for
\* which it does not take the lock.
C12_PoisonIsFatal ==
    [][lock = Poisoned
       => /\ \A h \in Handles :
               /\ result'[h] # result[h] => result'[h].tag # "err"
               /\ (spc[h] = "send_lock" /\ spc'[h] # spc[h]) => spc'[h] = "panicked"
          /\ received' # received
             => /\ rpc = "idle" /\ rpc' = "idle"
                /\ buffer # <<>>
                /\ received' = Append(received, Some(front(buffer)))
          /\ ((rpc = "recv_lock" \/ (rpc = "recv_wait" /\ Rx \notin waiters))
              /\ rpc' # rpc) => rpc' = "panicked"]_vars

\* a send and a receive have both panicked on the poisoned lock: the sender
\* whose push panicked is one panicked handle, the send that found the lock
\* poisoned another
C12_Witness ==
    /\ lock = Poisoned
    /\ rpc = "panicked"
    /\ Cardinality({h \in Handles : spc[h] = "panicked" /\ arg[h] # NoValue}) >= 2

\* ---- C13 -----------------------------------------------------------------------
\* C13 as claimed: the signal of a Sender drop is sent before the lock is
\* released, that is, the signalling step is taken by the lock's holder.
C13_Original ==
    [][\A h \in Handles :
         (spc[h] = "drop_notify" /\ spc'[h] # spc[h]) => lock = h]_vars

\* C13 as amended: a Sender drop that brings senders to 0 with receiver_alive
\* true signals once, after it has released the lock; a drop that leaves
\* senders > 0 or finds receiver_alive false sends no signal.
C13_DropSignalsOnceAfterUnlock ==
    [][\A h \in Handles :
         /\ (spc'[h] # spc[h] /\ spc'[h] \in {"drop_lock", "drop_body"})
            => waiters' = waiters
         /\ (spc[h] = "drop_body" /\ spc'[h] # spc[h])
            => /\ lock = h /\ lock' = Free
               /\ waiters' = waiters
               /\ senders' = senders - 1
               /\ spc'[h] = IF senders' = 0 /\ receiver_alive
                            THEN "drop_notify" ELSE "dead"
         /\ (spc[h] = "drop_notify" /\ spc'[h] # spc[h])
            => /\ lock # h
               /\ waiters' = notify_one(waiters)
               /\ spc'[h] = "dead"
         /\ spc[h] = "dead" => spc'[h] = "dead"]_vars

\* nothing was ever sent, the last Sender is destroyed and its signal has taken
\* the blocked receiver out of the wait set
C13_Witness ==
    /\ pushed = <<>> /\ nspurious = 0
    /\ senders = 0 /\ receiver_alive
    /\ AllSendersGone
    /\ rpc = "recv_wait" /\ Rx \notin waiters

\* ---- C14 -----------------------------------------------------------------------
\* C14: at most one thread is inside a critical section, it is the holder of the
\* lock, and every step that changes queue, senders or receiver_alive is taken
\* by the holder of the lock.  The steps that read these fields are the steps
\* taken from a critical section.
C14_SharedOnlyUnderLock ==
    /\ [](InCritical = IF lock = Free THEN {} ELSE {lock})
    /\ [][shared' # shared => (lock # Free /\ Acts(lock))]_vars

\* a Sender is in its critical section while the Receiver and another Sender
\* wait for the lock
C14_Witness ==
    /\ lock \in Handles
    /\ rpc = "recv_lock"
    /\ \E h \in Handles \ {lock} : spc[h] \in {"send_lock", "clone_lock", "drop_lock"}

\* ---- C15 -----------------------------------------------------------------------
\* C15: a receive called with a non-empty private buffer returns the buffer's
\* front in the step of its call: it does not touch the lock, the queue,
\* senders, receiver_alive or the wait set, whatever senders is and whoever
\* holds the lock.
C15_BufferedWithoutLock ==
    [][(rpc = "idle" /\ buffer # <<>> /\ (rpc' = "recv_lock" \/ received' # received))
       => /\ received' = Append(received, Some(buffer[1]))
          /\ buffer' = Tail(buffer)
          /\ rpc' = "idle"
          /\ UNCHANGED <<lock, shared, waiters>>]_vars

\* a receive can be called with a value in the buffer while a Sender holds the lock
C15_Witness ==
    /\ rpc = "idle" /\ buffer # <<>> /\ Len(received) < MaxRecvs
    /\ lock \in Handles

\* ---- C16 -----------------------------------------------------------------------
\* C16: a receive that finds k >= 1 values in the queue does so with its buffer
\* empty, returns the first and leaves the queue empty and the other k-1, in
\* order, in the buffer.
C16_RestGoesToBuffer ==
    [][(rpc = "recv_loop" /\ queue # <<>> /\ rpc' # rpc)
       => /\ buffer = <<>>
          /\ received' = Append(received, Some(queue[1]))
          /\ buffer' = Tail(queue)
          /\ queue' = <<>>
          /\ rpc' = "idle"]_vars

\* three values were pushed before the first was popped: two are in the buffer
C16_Witness ==
    /\ Len(received) = 1 /\ received[1].some
    /\ Len(buffer) = 2
    /\ queue = <<>>
    /\ pushed = <<received[1].value>> \o buffer

\* ---- C17 -----------------------------------------------------------------------
\* C17: the Receiver's drop sets receiver_alive to false as holder of the lock
\* and changes neither queue, senders nor the wait set; once receiver_alive is
\* false, the queue does not grow and every send that takes the lock fails.
C17_RxDropClosesSends ==
    [][/\ (rpc = "rxdrop_body" /\ rpc' # rpc)
          => /\ lock = Rx
             /\ receiver_alive' = FALSE
             /\ UNCHANGED <<queue, senders, waiters>>
       /\ ~receiver_alive
          => /\ Len(queue') <= Len(queue)
             /\ pushed' = pushed
             /\ \A h \in Handles :
                  (spc[h] = "send_body" /\ spc'[h] # spc[h])
                  => result'[h] = Err(arg[h])]_vars

\* the Receiver is gone with Senders left and values in the queue, and a send
\* has failed
C17_Witness ==
    /\ ~receiver_alive /\ rpc = "dead"
    /\ senders > 0
    /\ queue # <<>>
    /\ \E h \in Handles : result[h].tag = "err"

\* ---- C18 -----------------------------------------------------------------------
\* C18: once senders is 0 it stays 0, and once receiver_alive is false it stays
\* false.  (C18_Witness and C17_Witness are the two orders of closing.)
C18_OneWayFlags ==
    [][/\ senders = 0 => senders' = 0
       /\ ~receiver_alive => ~receiver_alive']_vars

\* closed by the senders with the Receiver alive, and the Receiver goes on
C18_Witness ==
    /\ senders = 0 /\ receiver_alive
    /\ rpc = "rxdrop_lock"

\* ---- C19 -----------------------------------------------------------------------
\* C19: a wake from the wait returns nothing by itself: it leads back to the
\* check under the lock, and that check returns a value only by popping it from
\* the queue, returns None only with the queue empty and senders = 0, and waits
\* again otherwise.
C19_RecheckAfterWake ==
    [][/\ (rpc = "recv_wait" /\ rpc' # rpc)
          => /\ rpc' = "recv_loop" /\ lock' = Rx
             /\ Rx \notin waiters
             /\ received' = received
       /\ (rpc = "recv_loop" /\ rpc' # rpc)
          => /\ lock = Rx
             /\ IF queue # <<>>
                THEN received' = Append(received, Some(queue[1])) /\ rpc' = "idle"
                ELSE IF senders = 0
                THEN received' = Append(received, None) /\ rpc' = "idle"
                ELSE /\ received' = received
                     /\ rpc' = "recv_wait" /\ Rx \in waiters'
       /\ received' # received
          => \/ rpc = "recv_loop"
             \/ rpc = "idle" /\ buffer # <<>>]_vars

\* a spurious wake found nothing to return and the same call waits again
C19_Witness ==
    /\ nspurious >= 1
    /\ pushed = <<>> /\ received = <<>>
    /\ senders > 0
    /\ rpc = "recv_wait" /\ Rx \in waiters

\* ---- C20 -----------------------------------------------------------------------
\* C20: while the Receiver is alive, the values pushed so far are the values
\* returned, then the buffer, then the queue; no value occurs twice; and once
\* None was returned every pushed value has been returned.
C20_Conservation ==
    /\ receiver_alive => pushed = RecvValues \o buffer \o queue
    /\ \A i, j \in 1..Len(pushed) : i # j => pushed[i] # pushed[j]
    /\ (\E i \in 1..Len(received) : received[i] = None) => RecvValues = pushed

\* four values pushed: two returned, one in the buffer, one in the queue
C20_Witness ==
    /\ receiver_alive
    /\ Len(pushed) = 4
    /\ Len(RecvValues) = 2 /\ Len(buffer) = 1 /\ Len(queue) = 1

====
